---- MODULE Spec2Model ----
(***************************************************************************)
(* The Qwen background service: src/server.py (QwenServer: acceptor,       *)
(* per-connection handler threads, dispatcher, signal handler) and         *)
(* src/llm_client.py (QwenLLMClient: response cache with ttl, remote       *)
(* completion call).                                                       *)
(***************************************************************************)
EXTENDS Integers, Sequences, FiniteSets, TLC

(***************************************************************************)
(* Bounds of the model.                                                    *)
(***************************************************************************)
\* connections open at the same time (handler threads alive at the same time)
MaxConn == 1
\* advances of the wall clock in one run
MaxTicks == 1

\* the amounts by which the wall clock advances between two steps
TickSteps == {299, 300}

(***************************************************************************)
(* Program constants.                                                      *)
(***************************************************************************)
\* self.cache_ttl = 300
cache_ttl == 300
\* request.get("temperature", 0.9), in tenths
DefaultTemperature == 9
\* request.get("max_tokens", 2000)
DefaultMaxTokens == 2000
\* "tokens": len(response) // 4
TokenDivisor == 4

Conns == 1..MaxConn

(***************************************************************************)
(* JSON values on the wire.  A request is a JSON document: either an       *)
(* object with some of the fields action, messages, stream, temperature,   *)
(* max_tokens (has = the fields that are present), or a document that is   *)
(* no object (obj = FALSE).                                                *)
(***************************************************************************)
Hello == <<[role |-> "user", content |-> "hello"]>>

NoMessages == <<>>

Doc(o, h, a, m, s, t) ==
    [obj |-> o, has |-> h, action |-> a, messages |-> m, stream |-> s,
     temperature |-> t, max_tokens |-> DefaultMaxTokens]

\* dict.get(field, default)
Get(req, field, default) == IF field \in req.has THEN req[field] ELSE default

ChatDocs ==
    { Doc(TRUE, {"action", "stream", "messages"}, "chat", m, s, DefaultTemperature) :
        m \in {NoMessages, Hello}, s \in BOOLEAN } \cup
    { Doc(TRUE, {"action", "stream"}, "chat", NoMessages, s, DefaultTemperature) :
        s \in BOOLEAN }

OtherDocs ==
    { Doc(TRUE, {"action", "messages", "temperature"}, "chat", Hello, FALSE, DefaultTemperature),
      Doc(TRUE, {}, "", NoMessages, FALSE, DefaultTemperature),
      Doc(TRUE, {"messages"}, "", Hello, FALSE, DefaultTemperature),
      Doc(TRUE, {"action"}, "ping", NoMessages, FALSE, DefaultTemperature),
      Doc(TRUE, {"action"}, "status", NoMessages, FALSE, DefaultTemperature),
      Doc(TRUE, {"action"}, "bogus", NoMessages, FALSE, DefaultTemperature),
      Doc(FALSE, {}, "", NoMessages, FALSE, DefaultTemperature) }

Docs == ChatDocs \cup OtherDocs

NullDoc == Doc(FALSE, {}, "", NoMessages, FALSE, DefaultTemperature)

(***************************************************************************)
(* The byte stream of a connection, as a sequence of symbols: the encoded  *)
(* text of a JSON document, bytes that are no JSON, and the sentinel       *)
(* __END__.                                                                *)
(***************************************************************************)
DocSym(d) == [k |-> "doc", d |-> d]
Junk == [k |-> "junk", d |-> NullDoc]
Sentinel == [k |-> "end", d |-> NullDoc]

Bodies == { DocSym(d) : d \in Docs } \cup {Junk}

\* the bodies a peer sends without the sentinel before it closes
Unterminated ==
    { DocSym(Doc(TRUE, {"action"}, "ping", NoMessages, FALSE, DefaultTemperature)), Junk }

\* what a peer sends before it stops sending: a sequence of non-empty chunks
PeerStreams ==
    { <<>> } \cup
    { << <<b, Sentinel>> >> : b \in Bodies } \cup
    { << <<b>>, <<Sentinel>> >> : b \in Bodies } \cup
    { << <<b>> >> : b \in Unterminated } \cup
    { << <<Sentinel>> >> }

\* b"__END__" in data
HasSentinel(data) == \E i \in 1..Len(data) : data[i] = Sentinel

\* the receive loop of handle_client: append chunks until the sentinel is in
\* the buffer or recv returns no bytes
RECURSIVE RecvLoop(_, _)
RecvLoop(chunks, data) ==
    IF chunks = <<>> THEN data
    ELSE LET d2 == data \o Head(chunks)
         IN  IF HasSentinel(d2) THEN d2 ELSE RecvLoop(Tail(chunks), d2)

IsNotSentinel(s) == s # Sentinel

\* data.decode('utf-8').replace("__END__", "")
Strip(data) == SelectSeq(data, IsNotSentinel)

\* json.loads succeeds
ValidJSON(str) == Len(str) = 1 /\ str[1].k = "doc"

\* json.loads
Loads(str) == str[1].d

(***************************************************************************)
(* Responses of the daemon (JSON objects, as records).  An error message   *)
(* is the fixed text of the handler and the detail it formats into it.     *)
(***************************************************************************)
NoResponse == [none |-> TRUE]

\* {"error": "无效的JSON请求"}
InvalidJSON == [error |-> <<"invalid JSON request", "">>]

\* {"error": f"服务器内部错误: {str(e)}"}
InternalError(detail) == [error |-> <<"internal server error", detail>>]

\* {"error": "消息不能为空"}
EmptyMessages == [error |-> <<"messages must not be empty", "">>]

\* {"warning": "流式响应需要WebSocket，使用非流式"}
StreamingUnsupported == [warning |-> "streaming needs WebSocket, using non-streaming"]

\* {"error": f"模型请求失败: {str(e)}"}
ModelRequestFailed(detail) == [error |-> <<"model request failed", detail>>]

\* {"error": f"未知操作: {action}"}
UnknownAction(action) == [error |-> <<"unknown action", action>>]

\* {"status": "alive", "action": "pong"}
Pong == [status |-> "alive", action |-> "pong"]

\* {"response": response, "tokens": len(response) // 4}
ChatOk(text) == [response |-> text, tokens |-> Len(text) \div TokenDivisor]

\* get_status
StatusReport(loaded, clients, mem) ==
    [status |-> "running", model_loaded |-> loaded, clients_connected |-> clients,
     memory_usage |-> mem]

\* get_memory_usage: the resident size, or "unknown" without psutil
MemoryUsages == {"rss", "unknown"}

\* str(e) of the exceptions the handler can meet
TypeErrorText == "object of type 'NoneType' has no len()"
AttributeErrorText == "'list' object has no attribute 'get'"
KeyErrorText == "'cache_key'"
SendErrorText == "[Errno 32] Broken pipe"

(***************************************************************************)
(* The remote completion call and what _direct_request makes of it.        *)
(***************************************************************************)
HiThere == <<"h", "i", " ", "t", "h", "e", "r", "e">>
Sure == <<"s", "u", "r", "e">>
NoText == <<>>

\* texts of the exceptions client.chat.completions.create raises (after the
\* timeout of 60 s, or after max_retries=3)
RemoteErrors == {"Request timed out.", "Connection error."}

\* the remote call: message content (possibly none), or an exception
RemoteOutcomes ==
    { [st |-> "ok", text |-> t, err |-> ""] : t \in {HiThere, Sure, NoText} } \cup
    { [st |-> "fail", text |-> NoText, err |-> e] : e \in RemoteErrors }

\* the outcomes of the warm-up call
WarmupOutcomes == { o \in RemoteOutcomes : o.text # Sure /\ o.err # "Connection error." }

\* no remote call made
NoCall == [st |-> "nocall", text |-> NoText, err |-> ""]

\* Python's None
None == [st |-> "None", text |-> NoText, err |-> ""]

\* _direct_request(stream=False): the content, "" without content, None when
\* the call raised
DirectRequest(o) ==
    IF o.st = "fail" THEN None ELSE [st |-> "ok", text |-> o.text, err |-> ""]

\* a test for None only: if response is not None
Truthy_NotNone(r) == r.st = "ok"

\* no test: whatever _direct_request returns is stored
Truthy_Always(r) == TRUE

\* Python truth of what _direct_request returns: None and "" are false
Truthy(r) == r.st = "ok" /\ r.text # NoText

(***************************************************************************)
(* The cache: a dict from cache key to {"response", "timestamp"}.  The key *)
(* is the md5 of json.dumps({"messages": messages, **kwargs},              *)
(* sort_keys=True): the messages and the set of keyword arguments.         *)
(***************************************************************************)
CacheKey(messages, kwargs) == [messages |-> messages, kwargs |-> kwargs]

\* the key process_chat's call of chat_completion computes
ChatKey(req) ==
    CacheKey(Get(req, "messages", NoMessages),
             { <<"temperature", Get(req, "temperature", DefaultTemperature)>>,
               <<"max_tokens", Get(req, "max_tokens", DefaultMaxTokens)>> })

\* the key of the warm-up call: messages=[{"role":"user","content":"你好"}], no kwargs
WarmupKey == CacheKey(<<[role |-> "user", content |-> "nihao"]>>, {})

EmptyCache == [k \in {} |-> NoCall]

CacheEntry(text, t) == [response |-> text, timestamp |-> t]

\* the ttl test with <= for <
Fresh_Inclusive(entry, t) == t - entry.timestamp <= cache_ttl

\* time.time() - cached_data["timestamp"] < self.cache_ttl
Fresh(entry, t) == t - entry.timestamp < cache_ttl

\* self.cache[cache_key] = {...}
CachePut(c, k, e) == [x \in DOMAIN c \cup {k} |-> IF x = k THEN e ELSE c[x]]

(***************************************************************************)
(* State.                                                                  *)
(***************************************************************************)
VARIABLES
    apiKey,      \* DASHSCOPE_API_KEY is set in the environment
    mainPc,      \* where the main thread is in run / run_unix_socket
    running,     \* self.running
    llm,         \* self.llm_client is not None
    cache,       \* self.llm_client.cache
    listening,   \* the listening socket is open
    sockFile,    \* the socket file exists
    exitStatus,  \* what run returned: -1 while it has not returned
    now,         \* time.time()
    ticks,       \* advances of the clock so far
    hpc,         \* per connection: where its handler thread is ("free": no thread)
    data,        \* per connection: the buffer of handle_client
    remote,      \* per connection: the outcome of its remote call
    response,    \* per connection: the response handle_client holds
    delivered,   \* per connection: the response frame sent to the peer
    \* history variables, which the program does not hold; they change only
    \* under SpecH
    prev,        \* the chat_completion that ended last, if it called the remote
    pred,        \* per connection: prev when its chat_completion began
    \* one call of a function of the program on its own, with its arguments,
    \* its locals and its result; it changes only under SpecF
    call

mainVars == <<apiKey, mainPc, running, llm, listening, sockFile, exitStatus>>
clockVars == <<now, ticks>>
connVars == <<hpc, data, remote, response, delivered>>
histVars == <<prev, pred>>
vars == <<mainVars, clockVars, cache, connVars, histVars, call>>

\* no chat_completion on record
NoService == [some |-> FALSE, out |-> NoCall, t0 |-> 0, solo |-> FALSE]

\* no function called on its own
Idle == [fn |-> "none"]

\* the daemon after QwenServer()
InitDaemon ==
    /\ apiKey \in BOOLEAN
    /\ mainPc = "start"
    /\ running = TRUE
    /\ llm = FALSE
    /\ cache = EmptyCache
    /\ listening = FALSE
    /\ sockFile = FALSE
    /\ exitStatus = -1
    /\ now = 0
    /\ ticks = 0
    /\ hpc = [c \in Conns |-> "free"]
    /\ data = [c \in Conns |-> <<>>]
    /\ remote = [c \in Conns |-> NoCall]
    /\ response = [c \in Conns |-> NoResponse]
    /\ delivered = [c \in Conns |-> NoResponse]
    /\ prev = NoService
    /\ pred = [c \in Conns |-> NoService]

Init == InitDaemon /\ call = Idle

\* handler threads that are no daemon threads: they outlive the main thread
Alive_NonDaemon == TRUE

\* the process has not exited: its threads run
Alive == mainPc # "exited"

\* the wall clock advances
Tick ==
    /\ Alive
    /\ ticks < MaxTicks
    /\ \E d \in TickSteps : now' = now + d
    /\ ticks' = ticks + 1
    /\ UNCHANGED <<mainVars, cache, connVars>>

(***************************************************************************)
(* The main thread.                                                        *)
(***************************************************************************)
\* chat_completion(messages, stream=False, **kwargs) as one step of the main
\* thread: the cache after the call, for the remote outcome o
ChatCompletionCache(c, key, o, t) ==
    IF key \in DOMAIN c /\ Fresh(c[key], t) THEN c
    ELSE IF Truthy(DirectRequest(o))
         THEN CachePut(c, key, CacheEntry(DirectRequest(o).text, t))
         ELSE c

\* a start that gives up when the warm-up brings no text
InitializeLLM_WarmupRequired ==
    /\ mainPc = "start"
    /\ \E o \in WarmupOutcomes :
         IF ~apiKey \/ ~Truthy(DirectRequest(o))
         THEN /\ mainPc' = "exited"
              /\ exitStatus' = 1
              /\ UNCHANGED <<llm, cache>>
         ELSE /\ llm' = TRUE
              /\ cache' = ChatCompletionCache(cache, WarmupKey, o, now)
              /\ mainPc' = "bind"
              /\ UNCHANGED exitStatus
    /\ UNCHANGED <<apiKey, running, listening, sockFile, clockVars, connVars>>

\* run up to and including initialize_llm
InitializeLLM ==
    /\ mainPc = "start"
    /\ IF ~apiKey
       THEN /\ mainPc' = "exited"
            /\ exitStatus' = 1
            /\ UNCHANGED <<llm, cache>>
       ELSE /\ llm' = TRUE
            /\ \E o \in WarmupOutcomes :
                 cache' = ChatCompletionCache(cache, WarmupKey, o, now)
            /\ mainPc' = "bind"
            /\ UNCHANGED exitStatus
    /\ UNCHANGED <<apiKey, running, listening, sockFile, clockVars, connVars>>

\* run_unix_socket up to the accept loop
Bind ==
    /\ mainPc = "bind"
    /\ listening' = TRUE
    /\ sockFile' = TRUE
    /\ mainPc' = "loop"
    /\ UNCHANGED <<apiKey, running, llm, exitStatus, clockVars, cache, connVars>>

\* server.bind raises: run's finally cleans up and the exception ends the process
BindError ==
    /\ mainPc = "bind"
    /\ cache' = IF llm THEN EmptyCache ELSE cache
    /\ exitStatus' = 1
    /\ mainPc' = "exited"
    /\ UNCHANGED <<apiKey, running, llm, listening, sockFile, clockVars, connVars>>

\* while self.running:
LoopTest ==
    /\ mainPc = "loop"
    /\ mainPc' = IF running THEN "accept" ELSE "closing"
    /\ UNCHANGED <<apiKey, running, llm, listening, sockFile, exitStatus,
                   clockVars, cache, connVars>>

\* the connection the next accept returns
NextConn == CHOOSE c \in Conns : hpc[c] = "free" /\ \A d \in 1..(c - 1) : hpc[d] # "free"

\* server.accept() returns a connection; its handler thread is started
Accept ==
    /\ mainPc = "accept"
    /\ \E c \in Conns : hpc[c] = "free"
    /\ hpc' = [hpc EXCEPT ![NextConn] = "recv"]
    /\ mainPc' = "loop"
    /\ UNCHANGED <<apiKey, running, llm, listening, sockFile, exitStatus,
                   clockVars, cache, data, remote, response, delivered>>

\* server.accept() raises: logged if self.running, and the loop goes on
AcceptError ==
    /\ mainPc = "accept"
    /\ mainPc' = "loop"
    /\ UNCHANGED <<apiKey, running, llm, listening, sockFile, exitStatus,
                   clockVars, cache, connVars>>

\* server.close(); os.remove(self.socket_path)
ServerClose ==
    /\ mainPc = "closing"
    /\ listening' = FALSE
    /\ sockFile' = FALSE
    /\ mainPc' = "cleanup"
    /\ UNCHANGED <<apiKey, running, llm, exitStatus, clockVars, cache, connVars>>

\* run's finally: self.cleanup(); return 0; sys.exit(main()).  The handler
\* threads are daemon threads: they end with the process.
Cleanup ==
    /\ mainPc = "cleanup"
    /\ cache' = IF llm THEN EmptyCache ELSE cache
    /\ exitStatus' = 0
    /\ mainPc' = "exited"
    /\ UNCHANGED <<apiKey, running, llm, listening, sockFile, clockVars, connVars>>

\* signal_handler, run in the main thread wherever it is
SignalHandler ==
    /\ Alive
    /\ running' = FALSE
    /\ cache' = IF llm THEN EmptyCache ELSE cache
    /\ UNCHANGED <<apiKey, mainPc, llm, listening, sockFile, exitStatus, clockVars, connVars>>

(***************************************************************************)
(* The handler thread of connection c: handle_client.                      *)
(***************************************************************************)
\* the request handle_client parses out of its buffer
Request(c) == Loads(Strip(data[c]))

\* threading.active_count() - 1: the handler threads that have not ended
ActiveHandlers == Cardinality({c \in Conns : hpc[c] # "free"})

\* the handler going on with an empty buffer
AfterRecv_NoEmptyCheck(d) == "parse"

\* if not data: return (to the finally clause)
AfterRecv(d) == IF d = <<>> THEN "close" ELSE "parse"

\* the receive loop, until the sentinel is in the buffer or the peer has
\* closed; with an empty buffer the handler returns
Recv(c) ==
    /\ Alive
    /\ hpc[c] = "recv"
    /\ \E s \in PeerStreams :
         /\ data' = [data EXCEPT ![c] = RecvLoop(s, <<>>)]
         /\ hpc' = [hpc EXCEPT ![c] = AfterRecv(data'[c])]
    /\ UNCHANGED <<mainVars, clockVars, cache, remote, response, delivered>>

\* process_chat testing stream before messages
ProcessChatEarly_StreamFirst(req) ==
    IF Get(req, "stream", FALSE) THEN StreamingUnsupported
    ELSE IF Get(req, "messages", NoMessages) = NoMessages THEN EmptyMessages
    ELSE NoResponse

\* process_chat without the test of messages
ProcessChatEarly_NoEmptyCheck(req) ==
    IF Get(req, "stream", FALSE) THEN StreamingUnsupported ELSE NoResponse

\* process_chat up to the call of chat_completion: the response it returns
\* at once, or NoResponse when it goes on to chat_completion
ProcessChatEarly(req) ==
    IF Get(req, "messages", NoMessages) = NoMessages THEN EmptyMessages
    ELSE IF Get(req, "stream", FALSE) THEN StreamingUnsupported
    ELSE NoResponse

\* process_request taking ping for an unknown action
ProcessRequestEarly_NoPing(req, clients, mem) ==
    LET action == Get(req, "action", "chat")
    IN  IF action = "chat" THEN ProcessChatEarly(req)
        ELSE IF action = "status" THEN StatusReport(llm, clients, mem)
        ELSE UnknownAction(action)

\* process_request taking every unknown action for chat
ProcessRequestEarly_ChatByDefault(req, clients, mem) ==
    LET action == Get(req, "action", "chat")
    IN  IF action = "ping" THEN Pong
        ELSE IF action = "status" THEN StatusReport(llm, clients, mem)
        ELSE ProcessChatEarly(req)

\* process_request, except for the call of chat_completion
ProcessRequestEarly(req, clients, mem) ==
    LET action == Get(req, "action", "chat")
    IN  IF action = "chat" THEN ProcessChatEarly(req)
        ELSE IF action = "ping" THEN Pong
        ELSE IF action = "status" THEN StatusReport(llm, clients, mem)
        ELSE UnknownAction(action)

\* decode, json.loads and process_request up to the call of chat_completion
Dispatch(c) ==
    /\ Alive
    /\ hpc[c] = "parse"
    /\ IF ~ValidJSON(Strip(data[c]))
       THEN \* json.JSONDecodeError
            /\ response' = [response EXCEPT ![c] = InvalidJSON]
            /\ hpc' = [hpc EXCEPT ![c] = "send"]
       ELSE IF ~Request(c).obj
       THEN \* request.get raises AttributeError: the outer except
            /\ response' = [response EXCEPT ![c] = InternalError(AttributeErrorText)]
            /\ hpc' = [hpc EXCEPT ![c] = "send_exc"]
       ELSE \E mem \in MemoryUsages :
              LET r == ProcessRequestEarly(Request(c), ActiveHandlers, mem)
              IN  /\ response' = [response EXCEPT ![c] = r]
                  /\ hpc' = [hpc EXCEPT ![c] = IF r = NoResponse THEN "cc_test" ELSE "send"]
    /\ UNCHANGED <<mainVars, clockVars, cache, data, remote, delivered>>

\* chat_completion: if cache_key in self.cache
CacheTest(c) ==
    /\ Alive
    /\ hpc[c] = "cc_test"
    /\ hpc' = [hpc EXCEPT ![c] =
                 IF ChatKey(Request(c)) \in DOMAIN cache THEN "cc_read" ELSE "cc_request"]
    /\ UNCHANGED <<mainVars, clockVars, cache, data, remote, response, delivered>>

\* chat_completion: cached_data = self.cache[cache_key] and the ttl test; a
\* fresh entry is returned and process_chat builds the response
CacheRead(c) ==
    /\ Alive
    /\ hpc[c] = "cc_read"
    /\ LET key == ChatKey(Request(c))
       IN  IF key \notin DOMAIN cache
           THEN \* KeyError, caught by process_chat
                /\ response' = [response EXCEPT ![c] = ModelRequestFailed(KeyErrorText)]
                /\ hpc' = [hpc EXCEPT ![c] = "send"]
           ELSE IF Fresh(cache[key], now)
           THEN /\ response' = [response EXCEPT ![c] = ChatOk(cache[key].response)]
                /\ hpc' = [hpc EXCEPT ![c] = "send"]
           ELSE /\ hpc' = [hpc EXCEPT ![c] = "cc_request"]
                /\ UNCHANGED response
    /\ UNCHANGED <<mainVars, clockVars, cache, data, remote, delivered>>

\* _direct_request: the remote call returns or raises
RemoteCall(c) ==
    /\ Alive
    /\ hpc[c] = "cc_request"
    /\ \E o \in RemoteOutcomes : remote' = [remote EXCEPT ![c] = o]
    /\ hpc' = [hpc EXCEPT ![c] = "cc_store"]
    /\ UNCHANGED <<mainVars, clockVars, cache, data, response, delivered>>

\* process_chat taking None for an empty response: len(response or "")
ProcessChatLate_NoneAsEmpty(r) == ChatOk(r.text)

\* process_chat after chat_completion returned r
ProcessChatLate(r) ==
    IF r = None THEN ModelRequestFailed(TypeErrorText) ELSE ChatOk(r.text)

\* chat_completion after _direct_request: store a true response; then
\* process_chat builds the response
Store(c) ==
    /\ Alive
    /\ hpc[c] = "cc_store"
    /\ LET r == DirectRequest(remote[c])
       IN  /\ cache' = IF Truthy(r)
                       THEN CachePut(cache, ChatKey(Request(c)), CacheEntry(r.text, now))
                       ELSE cache
           /\ response' = [response EXCEPT ![c] = ProcessChatLate(r)]
    /\ hpc' = [hpc EXCEPT ![c] = "send"]
    /\ UNCHANGED <<mainVars, clockVars, data, remote, delivered>>

\* a send that raises after the frame has gone out
Send_RaisesAfterSending(c) ==
    /\ Alive
    /\ hpc[c] = "send"
    /\ delivered' = [delivered EXCEPT ![c] = response[c]]
    /\ \/ /\ hpc' = [hpc EXCEPT ![c] = "close"]
          /\ UNCHANGED response
       \/ /\ response' = [response EXCEPT ![c] = InternalError(SendErrorText)]
          /\ hpc' = [hpc EXCEPT ![c] = "send_exc"]
    /\ data' = [data EXCEPT ![c] = <<>>]
    /\ remote' = [remote EXCEPT ![c] = NoCall]
    /\ UNCHANGED <<mainVars, clockVars, cache>>

\* client_socket.send inside the try block: it sends the frame or raises, and
\* the outer except then builds the internal-error response.  The buffer and
\* the outcome of the remote call are not read again.
Send(c) ==
    /\ Alive
    /\ hpc[c] = "send"
    /\ \/ /\ delivered' = [delivered EXCEPT ![c] = response[c]]
          /\ hpc' = [hpc EXCEPT ![c] = "close"]
          /\ UNCHANGED response
       \/ /\ response' = [response EXCEPT ![c] = InternalError(SendErrorText)]
          /\ hpc' = [hpc EXCEPT ![c] = "send_exc"]
          /\ UNCHANGED delivered
    /\ data' = [data EXCEPT ![c] = <<>>]
    /\ remote' = [remote EXCEPT ![c] = NoCall]
    /\ UNCHANGED <<mainVars, clockVars, cache>>

\* an except block that stops the daemon when its send fails
SendExc_StopsDaemon(c) ==
    /\ Alive
    /\ hpc[c] = "send_exc"
    /\ \/ delivered' = [delivered EXCEPT ![c] = response[c]] /\ UNCHANGED running
       \/ UNCHANGED delivered /\ running' = FALSE
    /\ hpc' = [hpc EXCEPT ![c] = "close"]
    /\ data' = [data EXCEPT ![c] = <<>>]
    /\ UNCHANGED <<apiKey, mainPc, llm, listening, sockFile, exitStatus,
                   clockVars, cache, remote, response>>

\* client_socket.send inside the except block: it sends the frame, or raises
\* and the exception ends the thread
SendExc(c) ==
    /\ Alive
    /\ hpc[c] = "send_exc"
    /\ \/ delivered' = [delivered EXCEPT ![c] = response[c]]
       \/ UNCHANGED delivered
    /\ hpc' = [hpc EXCEPT ![c] = "close"]
    /\ data' = [data EXCEPT ![c] = <<>>]
    /\ UNCHANGED <<mainVars, clockVars, cache, remote, response>>

\* finally: client_socket.close(); the thread ends and its locals are gone
Close(c) ==
    /\ Alive
    /\ hpc[c] = "close"
    /\ hpc' = [hpc EXCEPT ![c] = "free"]
    /\ data' = [data EXCEPT ![c] = <<>>]
    /\ remote' = [remote EXCEPT ![c] = NoCall]
    /\ response' = [response EXCEPT ![c] = NoResponse]
    /\ delivered' = [delivered EXCEPT ![c] = NoResponse]
    /\ UNCHANGED <<mainVars, clockVars, cache>>

\* a step of the handler thread of connection c
Handler(c) ==
    \/ Recv(c) \/ Dispatch(c) \/ CacheTest(c) \/ CacheRead(c) \/ RemoteCall(c)
    \/ Store(c) \/ Send(c) \/ SendExc(c) \/ Close(c)

\* the states of a handler inside chat_completion
ChatStates == {"cc_test", "cc_read", "cc_request", "cc_store"}

(***************************************************************************)
(* History of the run, observed from the step action a of connection c     *)
(* (c = 0: a step of the main thread or of the clock).                     *)
(***************************************************************************)
\* another handler is inside chat_completion
OthersInFlight(c) == \E d \in Conns \ {c} : hpc[d] \in ChatStates

\* prev: a chat_completion that called the remote and ended at time t0, with
\* no other handler inside chat_completion from its beginning to its end; a
\* termination signal and the next chat_completion to begin take it off the
\* record.  pred[c]: the record the chat_completion of c found when it began
\* with no other handler inside chat_completion (solo); another
\* chat_completion that begins meanwhile takes it off
Observe(a, c) ==
    IF a = "SignalHandler"
    THEN /\ prev' = NoService
         /\ pred' = [d \in Conns |-> NoService]
    ELSE IF a = "Dispatch" /\ hpc'[c] = "cc_test"
    THEN /\ pred' = [d \in Conns |->
                       IF d = c /\ ~OthersInFlight(c)
                       THEN [prev EXCEPT !.solo = TRUE] ELSE NoService]
         /\ prev' = NoService
    ELSE IF a \in {"CacheRead", "Store"} /\ hpc'[c] = "send"
    THEN /\ prev' = IF remote[c] # NoCall /\ pred[c].solo
                    THEN [some |-> TRUE, out |-> remote[c], t0 |-> now, solo |-> FALSE]
                    ELSE NoService
         /\ UNCHANGED pred
    ELSE IF a = "Send"
    THEN /\ pred' = [pred EXCEPT ![c] = NoService]
         /\ UNCHANGED prev
    ELSE UNCHANGED histVars

Next ==
    \/ Tick /\ UNCHANGED <<histVars, call>>
    \/ InitializeLLM /\ UNCHANGED <<histVars, call>>
    \/ Bind /\ UNCHANGED <<histVars, call>>
    \/ BindError /\ UNCHANGED <<histVars, call>>
    \/ LoopTest /\ UNCHANGED <<histVars, call>>
    \/ Accept /\ UNCHANGED <<histVars, call>>
    \/ AcceptError /\ UNCHANGED <<histVars, call>>
    \/ ServerClose /\ UNCHANGED <<histVars, call>>
    \/ Cleanup /\ UNCHANGED <<histVars, call>>
    \/ SignalHandler /\ UNCHANGED <<histVars, call>>
    \/ \E c \in Conns :
         \/ Recv(c) /\ UNCHANGED <<histVars, call>>
         \/ Dispatch(c) /\ UNCHANGED <<histVars, call>>
         \/ CacheTest(c) /\ UNCHANGED <<histVars, call>>
         \/ CacheRead(c) /\ UNCHANGED <<histVars, call>>
         \/ RemoteCall(c) /\ UNCHANGED <<histVars, call>>
         \/ Store(c) /\ UNCHANGED <<histVars, call>>
         \/ Send(c) /\ UNCHANGED <<histVars, call>>
         \/ SendExc(c) /\ UNCHANGED <<histVars, call>>
         \/ Close(c) /\ UNCHANGED <<histVars, call>>

NextH ==
    \/ Tick /\ Observe("Tick", 0) /\ UNCHANGED call
    \/ InitializeLLM /\ Observe("InitializeLLM", 0) /\ UNCHANGED call
    \/ Bind /\ Observe("Bind", 0) /\ UNCHANGED call
    \/ BindError /\ Observe("BindError", 0) /\ UNCHANGED call
    \/ LoopTest /\ Observe("LoopTest", 0) /\ UNCHANGED call
    \/ Accept /\ Observe("Accept", 0) /\ UNCHANGED call
    \/ AcceptError /\ Observe("AcceptError", 0) /\ UNCHANGED call
    \/ ServerClose /\ Observe("ServerClose", 0) /\ UNCHANGED call
    \/ Cleanup /\ Observe("Cleanup", 0) /\ UNCHANGED call
    \/ SignalHandler /\ Observe("SignalHandler", 0) /\ UNCHANGED call
    \/ \E c \in Conns :
         \/ Recv(c) /\ Observe("Recv", c) /\ UNCHANGED call
         \/ Dispatch(c) /\ Observe("Dispatch", c) /\ UNCHANGED call
         \/ CacheTest(c) /\ Observe("CacheTest", c) /\ UNCHANGED call
         \/ CacheRead(c) /\ Observe("CacheRead", c) /\ UNCHANGED call
         \/ RemoteCall(c) /\ Observe("RemoteCall", c) /\ UNCHANGED call
         \/ Store(c) /\ Observe("Store", c) /\ UNCHANGED call
         \/ Send(c) /\ Observe("Send", c) /\ UNCHANGED call
         \/ SendExc(c) /\ Observe("SendExc", c) /\ UNCHANGED call
         \/ Close(c) /\ Observe("Close", c) /\ UNCHANGED call

\* the program
Spec == Init /\ [][Next]_vars

\* the program with the history of its run
SpecH == Init /\ [][NextH]_vars

(***************************************************************************)
(* The requests and responses the claims speak of.                         *)
(***************************************************************************)
\* the buffer of connection c holds a JSON object
HasRequest(c) == ValidJSON(Strip(data[c])) /\ Request(c).obj

ActionOf(req) == Get(req, "action", "chat")
IsChat(req) == ActionOf(req) = "chat"
EmptyConversation(req) == Get(req, "messages", NoMessages) = NoMessages
Streaming(req) == Get(req, "stream", FALSE)

\* connection c carries a chat request
ChatRequest(c) == HasRequest(c) /\ IsChat(Request(c))

\* the handler of c leaves the state "parse" in this step: it dispatches
Dispatches(c) == hpc[c] = "parse" /\ hpc'[c] # "parse"

\* the dispatch of c answers r at once: no chat_completion (so no cache
\* lookup, no remote call), and the cache stays as it is
AnswersAtOnce(c, r) ==
    /\ hpc'[c] = "send"
    /\ response'[c] = r
    /\ remote'[c] = NoCall
    /\ cache' = cache

(***************************************************************************)
(* C1: when the remote call of a non-streaming chat request fails, the     *)
(* response is the error "model request failed" followed by the error text *)
(* of the remote call.  The code answers with the text of the TypeError    *)
(* that len(None) raises: _direct_request has swallowed the remote error.  *)
(***************************************************************************)
C1_RemoteErrorText ==
    \A c \in Conns :
        hpc[c] = "send" /\ remote[c].st = "fail"
            => response[c] = ModelRequestFailed(remote[c].err)

(***************************************************************************)
(* C2, as claimed: every chat request with stream = true, whatever its     *)
(* conversation, is answered at once with the streaming-unsupported        *)
(* response, without cache lookup, cache store or remote call.             *)
(***************************************************************************)
C2_AsClaimed ==
    [][\A c \in Conns :
         Dispatches(c) /\ ChatRequest(c) /\ Streaming(Request(c))
             => AnswersAtOnce(c, StreamingUnsupported)]_vars

(***************************************************************************)
(* C2, amended: a chat request with stream = true is answered at once,     *)
(* without cache lookup, cache store or remote call: with the              *)
(* streaming-unsupported response if its conversation is not empty, with   *)
(* the empty-conversation error if it is empty or missing.                 *)
(***************************************************************************)
C2_StreamingChat ==
    [][\A c \in Conns :
         Dispatches(c) /\ ChatRequest(c) /\ Streaming(Request(c))
             => AnswersAtOnce(c, IF EmptyConversation(Request(c))
                                 THEN EmptyMessages ELSE StreamingUnsupported)]_vars

C2_Witness ==
    \E c \in Conns :
        /\ hpc[c] = "send" /\ ChatRequest(c) /\ Streaming(Request(c))
        /\ ~EmptyConversation(Request(c))
        /\ response[c] = StreamingUnsupported

(***************************************************************************)
(* C3: every chat request whose conversation is empty or missing is        *)
(* answered at once with the empty-conversation error: chat_completion is  *)
(* not called, no remote call is made and the cache stays as it is.        *)
(***************************************************************************)
C3_EmptyConversation ==
    [][\A c \in Conns :
         Dispatches(c) /\ ChatRequest(c) /\ EmptyConversation(Request(c))
             => AnswersAtOnce(c, EmptyMessages)]_vars

C3_Witness ==
    \E c \in Conns :
        /\ hpc[c] = "send" /\ ChatRequest(c) /\ EmptyConversation(Request(c))
        /\ "messages" \notin Request(c).has
        /\ response[c] = EmptyMessages /\ remote[c] = NoCall

(***************************************************************************)
(* C4.  The handler of c holds a response to send.  It is the response of  *)
(* a success when the request is a ping, a status request, or a            *)
(* non-streaming chat with a conversation whose completion came back; any  *)
(* other response is a failure response.                                   *)
(***************************************************************************)
Responding(c) == hpc[c] \in {"send", "send_exc"}

SuccessPath(c) ==
    /\ hpc[c] = "send"
    /\ HasRequest(c)
    /\ \/ ActionOf(Request(c)) \in {"ping", "status"}
       \/ /\ IsChat(Request(c))
          /\ ~EmptyConversation(Request(c)) /\ ~Streaming(Request(c))
          /\ remote[c].st # "fail"
          /\ "response" \in DOMAIN response[c]

StreamingPath(c) ==
    /\ hpc[c] = "send"
    /\ ChatRequest(c) /\ ~EmptyConversation(Request(c)) /\ Streaming(Request(c))

\* the shape of a success: a chat result, a pong or a status report
SuccessShape(r) == "response" \in DOMAIN r \/ "status" \in DOMAIN r

Completes(c) == hpc[c] \in {"cc_read", "cc_store"} /\ hpc'[c] = "send"

\* the first of the two got a text to store
FirstGotText(c) == pred[c].out.st = "ok" /\ pred[c].out.text # NoText

KeyOf(c) == ChatKey(Request(c))

\* the handler of c leaves the state s in this step
Leaves(c, s) == hpc[c] = s /\ hpc'[c] # s

\* cached_data = self.cache[cache_key] finds an entry; the ttl test passes
\* below 300 and the cached value is the result, with no remote call
LookupWithinTtl(c) ==
    Leaves(c, "cc_read") /\ KeyOf(c) \in DOMAIN cache
        /\ now - cache[KeyOf(c)].timestamp < cache_ttl
    => /\ hpc'[c] = "send"
       /\ response'[c] = ChatOk(cache[KeyOf(c)].response)
       /\ remote'[c] = NoCall
       /\ cache' = cache

\* from 300 on the lookup is a miss, the entry stays in the map and the remote
\* is called again
LookupAfterTtl(c) ==
    /\ Leaves(c, "cc_read") /\ KeyOf(c) \in DOMAIN cache
           /\ now - cache[KeyOf(c)].timestamp >= cache_ttl
       => hpc'[c] = "cc_request" /\ cache' = cache
    /\ Leaves(c, "cc_request") => hpc'[c] = "cc_store" /\ remote'[c] # NoCall

\* the handler of c stores over an expired entry
StoresOverExpired(c) ==
    Leaves(c, "cc_store") /\ KeyOf(c) \in DOMAIN cache
        /\ now - cache[KeyOf(c)].timestamp >= cache_ttl

\* the entry of c's key after the step: the result of the remote call, now
Overwritten(c) ==
    /\ KeyOf(c) \in DOMAIN cache'
    /\ cache'[KeyOf(c)] = CacheEntry(remote[c].text, now)

PeerClosedEarly(c) == Leaves(c, "recv") /\ ~HasSentinel(data'[c])

\* the handler of c goes to its finally clause: nothing dispatched, no response
NoRequest(c) ==
    /\ hpc'[c] = "close"
    /\ response'[c] = NoResponse
    /\ delivered'[c] = NoResponse

C8_HandlerFailures ==
    [][\A c \in Conns :
         hpc[c] # "free" /\ hpc'[c] # hpc[c]
             => UNCHANGED <<running, mainPc, listening, sockFile, exitStatus>>]_vars

\* after a chat whose remote call failed, a later connection has been
\* accepted and its chat request served
C8_Witness ==
    \E c \in Conns :
        /\ pred[c].some /\ pred[c].out.st = "fail"
        /\ running /\ listening
        /\ hpc[c] = "send" /\ remote[c] # NoCall
        /\ "response" \in DOMAIN response[c]

(***************************************************************************)
(* C9.  The steps the main thread takes on its own in run_unix_socket and  *)
(* run, and the steps of accept, which wait for a peer to connect or for   *)
(* the call to fail.                                                       *)
(***************************************************************************)
MainUnaided == LoopTest \/ ServerClose \/ Cleanup

\* a connection is accepted and handed to a handler thread in this step
HandsToHandler == \E c \in Conns : hpc[c] = "free" /\ hpc'[c] = "recv"

\* the main thread is in the accept loop or on its way out of it
InService == mainPc \in {"loop", "accept", "closing", "cleanup"}

(***************************************************************************)
(* C9: after a termination signal has set running to false, the accept     *)
(* loop exits, the listening socket is closed and the socket file removed  *)
(* without any further connection (the main thread always has a step of    *)
(* its own to take until the process exits), and no connection is accepted *)
(* and handed to a handler once the flag is cleared.  In the code the      *)
(* signal handler returns into the blocked accept call, which goes on      *)
(* waiting: the loop tests the flag only after the next connection has     *)
(* been accepted and handed to a handler.                                  *)
(***************************************************************************)
C9_SignalStopsAccepting ==
    /\ [](~running /\ InService => ENABLED MainUnaided)
    /\ [][~running => ~HandsToHandler]_vars

(***************************************************************************)
(* C10.  A handler in flight: it has received a complete framed request    *)
(* and has not sent its response.                                          *)
(***************************************************************************)
InFlight(c) ==
    /\ hpc[c] \in {"parse", "send"} \cup ChatStates
    /\ HasSentinel(data[c])
    /\ delivered[c] = NoResponse

\* a step of the shutdown: the signal, the exit of the loop, the closing of
\* the listening socket
ShutdownStep == running' # running \/ (~running /\ mainPc' # mainPc)

\* the step leaves the handler of c where it is, with what it holds
Untouched(c) ==
    /\ hpc'[c] = hpc[c] /\ data'[c] = data[c] /\ remote'[c] = remote[c]
    /\ response'[c] = response[c] /\ delivered'[c] = delivered[c]

(***************************************************************************)
(* C10, as claimed: every handler that has received a complete framed      *)
(* request before the accept loop exits sends its response and closes its  *)
(* connection, even though the main thread returns from run and the        *)
(* process exits: the process never ends with a handler in flight.         *)
(***************************************************************************)
C10_AsClaimed ==
    mainPc = "exited" => \A c \in Conns : ~InFlight(c)

(***************************************************************************)
(* C10, amended: shutdown does not itself cancel in-flight handlers: the   *)
(* signal, the exit of the accept loop and the closing of the listening    *)
(* socket leave every handler as it is, and a handler in flight can take   *)
(* its next step as long as the main thread has not returned from run; the *)
(* handlers are daemon threads, so from the exit of the process on no      *)
(* handler takes a step: a response not sent by then is never sent.        *)
(***************************************************************************)
C10_InFlightHandlers ==
    /\ [](\A c \in Conns : InFlight(c) /\ mainPc # "exited" => ENABLED Handler(c))
    /\ [][ /\ ShutdownStep /\ mainPc' # "exited"
                => \A c \in Conns : hpc[c] # "free" => Untouched(c)
           /\ mainPc = "exited" => UNCHANGED connVars ]_vars

C10_Witness ==
    /\ mainPc = "exited" /\ exitStatus = 0 /\ ~running
    /\ \E c \in Conns : InFlight(c) /\ hpc[c] = "send"

(***************************************************************************)
(* C11: cache lookup and store are atomic with respect to each other and   *)
(* to every other cache mutation: under any interleaving of handlers and   *)
(* of the cache clear of the shutdown, a lookup returns a completely       *)
(* stored value or behaves as a miss, and never fails with a missing-key   *)
(* error between the membership test and the read.  The code takes no      *)
(* lock: the signal handler (or cleanup) can clear the cache between       *)
(* "cache_key in self.cache" and "self.cache[cache_key]", and the read     *)
(* raises KeyError.                                                        *)
(***************************************************************************)
C11_LookupNeverFails ==
    \A c \in Conns :
        /\ hpc[c] = "cc_read" => KeyOf(c) \in DOMAIN cache
        /\ hpc[c] = "send" => response[c] # ModelRequestFailed(KeyErrorText)

(***************************************************************************)
(* C12: a request with action = ping always gets the pong response, in     *)
(* every reachable state of the daemon (whatever the cache holds, whatever *)
(* was served before, whatever other handlers are doing), and handling it  *)
(* neither changes the cache nor calls the remote.                         *)
(***************************************************************************)
\* connection c carries a ping request
PingRequest(c) == HasRequest(c) /\ ActionOf(Request(c)) = "ping"

KnownActions == {"chat", "ping", "status"}

NamesUnknownAction(r) == "error" \in DOMAIN r /\ r.error[1] = "unknown action"

(***************************************************************************)
(* C13, as claimed: every decoded request whose action is anything other   *)
(* than chat, ping or status, a request that carries no action included,   *)
(* gets an error response naming the unknown action and is never routed to *)
(* the chat path, the cache or the remote.                                 *)
(***************************************************************************)
C13_AsClaimed ==
    [][\A c \in Conns :
         Dispatches(c) /\ HasRequest(c)
           /\ ("action" \notin Request(c).has \/ Request(c).action \notin KnownActions)
             => /\ hpc'[c] = "send"
                /\ NamesUnknownAction(response'[c])
                /\ remote'[c] = NoCall /\ cache' = cache]_vars

(***************************************************************************)
(* C13, amended: every decoded request that carries an action other than   *)
(* chat, ping or status gets the error response naming that action and is  *)
(* never routed to the chat path, the cache or the remote; a request that  *)
(* carries no action at all is handled as a chat request (action defaults  *)
(* to chat): it gets what process_chat answers at once, or goes on to      *)
(* chat_completion.                                                        *)
(***************************************************************************)
C13_UnknownAction ==
    [][\A c \in Conns :
         Dispatches(c) /\ HasRequest(c) =>
            IF "action" \notin Request(c).has
            THEN IF ProcessChatEarly(Request(c)) = NoResponse
                 THEN hpc'[c] = "cc_test"
                 ELSE AnswersAtOnce(c, ProcessChatEarly(Request(c)))
            ELSE Request(c).action \notin KnownActions
                    => AnswersAtOnce(c, UnknownAction(Request(c).action))]_vars

\* a request without action on the chat path
C13_Witness ==
    \E c \in Conns :
        /\ hpc[c] = "cc_test" /\ HasRequest(c)
        /\ "action" \notin Request(c).has

(***************************************************************************)
(* The wire codec, byte by byte.  A frame is the encoded text of a JSON    *)
(* value followed by the sentinel; the receiver appends the chunks recv    *)
(* returns until the sentinel is in its buffer, removes every occurrence   *)
(* of the sentinel and parses what is left.  The values are JSON strings   *)
(* of characters that need no escape.                                      *)
(***************************************************************************)
\* b"__END__"
SentinelBytes == <<"_", "_", "E", "N", "D", "_", "_">>

\* the double quote of a JSON string
Quote == "q"

\* the most chunks the stream of one frame is split into
MaxChunks == 3

\* the values framed: the proper prefixes and suffixes of the sentinel, the
\* sentinel inside a text, and texts without any of its characters
WireValues ==
    { SubSeq(SentinelBytes, 1, k) : k \in 0..(Len(SentinelBytes) - 1) } \cup
    { SubSeq(SentinelBytes, k, Len(SentinelBytes)) : k \in 2..Len(SentinelBytes) } \cup
    { <<"a">>, <<"_", "a", "_">>, <<"a">> \o SentinelBytes \o <<"a">> }

\* json.dumps of a string
JsonDumps(v) == <<Quote>> \o v \o <<Quote>>

\* json.loads: the string between the quotes, or JSONDecodeError
JsonLoads(text) ==
    IF /\ Len(text) >= 2
       /\ text[1] = Quote /\ text[Len(text)] = Quote
       /\ \A i \in 2..(Len(text) - 1) : text[i] # Quote
    THEN [ok |-> TRUE, value |-> SubSeq(text, 2, Len(text) - 1)]
    ELSE [ok |-> FALSE, value |-> <<>>]

\* pat in str
Contains(str, pat) ==
    \E i \in 1..(Len(str) - Len(pat) + 1) : SubSeq(str, i, i + Len(pat) - 1) = pat

\* str.replace(pat, ""): the occurrences found from left to right
RECURSIVE Replace(_, _)
Replace(str, pat) ==
    IF Len(str) < Len(pat) THEN str
    ELSE IF SubSeq(str, 1, Len(pat)) = pat
         THEN Replace(SubSeq(str, Len(pat) + 1, Len(str)), pat)
         ELSE <<Head(str)>> \o Replace(Tail(str), pat)

\* request_json.encode('utf-8') + b"__END__"
Encode(v) == JsonDumps(v) \o SentinelBytes

Least(S) == CHOOSE k \in S : \A m \in S : k <= m

\* the stream cut after the positions in cuts
RECURSIVE Split(_, _)
Split(str, cuts) ==
    IF cuts = {} THEN <<str>>
    ELSE LET k == Least(cuts)
         IN  <<SubSeq(str, 1, k)>>
                 \o Split(SubSeq(str, k + 1, Len(str)), { m - k : m \in cuts \ {k} })

\* the ways recv returns a stream: in non-empty chunks
Chunkings(str) ==
    { Split(str, cuts) :
        cuts \in { S \in SUBSET (1..(Len(str) - 1)) : Cardinality(S) < MaxChunks } }

\* data = chunk: the buffer overwritten
AddChunk_Overwrite(buf, chunk) == chunk

\* data += chunk
AddChunk(buf, chunk) == buf \o chunk

\* a frame sent and about to be received
CodecCalls ==
    UNION { { [fn |-> "codec", value |-> v, sent |-> cs, chunks |-> cs, data |-> <<>>,
               pc |-> "recv", out |-> JsonLoads(<<>>)] : cs \in Chunkings(Encode(v)) } :
            v \in WireValues }

\* one turn of the receive loop: recv returns the next chunk
CodecRecv ==
    /\ call.fn = "codec" /\ call.pc = "recv"
    /\ call.chunks # <<>>
    /\ LET buf == AddChunk(call.data, Head(call.chunks))
       IN  call' = [call EXCEPT !.data = buf,
                                !.chunks = Tail(call.chunks),
                                !.pc = IF Contains(buf, SentinelBytes) THEN "decode" ELSE "recv"]

\* decode, replace and json.loads
CodecDecode ==
    /\ call.fn = "codec" /\ call.pc = "decode"
    /\ call' = [call EXCEPT !.out = JsonLoads(Replace(call.data, SentinelBytes)),
                            !.pc = "done"]

(***************************************************************************)
(* The cache key, field by field.  A dict is the sequence of its           *)
(* (key, value) pairs in the order they were supplied; json.dumps with     *)
(* sort_keys=True writes the pairs of every dict in the order of their     *)
(* keys, and md5 of that text is the key (taken as the text itself).       *)
(***************************************************************************)
\* the field names, in the order of their strings
KeyOrder == <<"content", "max_tokens", "messages", "role", "temperature">>

Rank(k) == CHOOSE i \in 1..Len(KeyOrder) : KeyOrder[i] = k

\* JSON values of the fields: a number, a string, a list
Num(n) == [n |-> n, s |-> "", l |-> <<>>]
Str(s) == [n |-> 0, s |-> s, l |-> <<>>]
List(l) == [n |-> 0, s |-> "", l |-> l]

\* the pair put into the sorted pairs
RECURSIVE Insert(_, _)
Insert(p, sorted) ==
    IF sorted = <<>> THEN <<p>>
    ELSE IF Rank(p[1]) <= Rank(Head(sorted)[1]) THEN <<p>> \o sorted
    ELSE <<Head(sorted)>> \o Insert(p, Tail(sorted))

\* the pairs written in the order they were supplied
SortKeys_AsSupplied(pairs) == pairs

\* sort_keys=True: the pairs of a dict in the order of their keys
RECURSIVE SortKeys(_)
SortKeys(pairs) ==
    IF pairs = <<>> THEN <<>> ELSE Insert(Head(pairs), SortKeys(Tail(pairs)))

\* json.dumps of the list of messages
DumpMessages(messages) == [i \in 1..Len(messages) |-> SortKeys(messages[i])]

\* _get_cache_key(messages, **kwargs)
GetCacheKey(messages, kwargs) ==
    SortKeys(<< <<"messages", List(DumpMessages(messages))>> >> \o kwargs)

\* the mapping a sequence of pairs stands for
DictOf(pairs) ==
    [k \in { pairs[i][1] : i \in 1..Len(pairs) } |->
        (CHOOSE p \in { pairs[i] : i \in 1..Len(pairs) } : p[1] = k)[2]]

\* the orders in which two fields are supplied
Orders(p, q) == { <<p, q>>, <<q, p>> }

\* a message, its fields in either order
Messages(text) == Orders(<<"role", Str("user")>>, <<"content", Str(text)>>)

Conversations ==
    { <<m>> : m \in Messages("hello") } \cup
    { <<m, n>> : m \in Messages("hello"), n \in Messages("bye") } \cup
    { <<n, m>> : m \in Messages("hello"), n \in Messages("bye") }

\* the keyword arguments of process_chat's call, in either order
Kwargs ==
    UNION { Orders(<<"temperature", Num(t)>>, <<"max_tokens", Num(DefaultMaxTokens)>>) :
            t \in {5, DefaultTemperature} }

KeyRequests == { [messages |-> m, kwargs |-> k] : m \in Conversations, k \in Kwargs }

\* two requests whose keys are computed one after the other
KeyCalls ==
    { [fn |-> "key", a |-> a, b |-> b, pc |-> "first", keyA |-> <<>>, keyB |-> <<>>] :
        a \in KeyRequests, b \in KeyRequests }

KeyFirst ==
    /\ call.fn = "key" /\ call.pc = "first"
    /\ call' = [call EXCEPT !.keyA = GetCacheKey(call.a.messages, call.a.kwargs),
                            !.pc = "second"]

KeySecond ==
    /\ call.fn = "key" /\ call.pc = "second"
    /\ call' = [call EXCEPT !.keyB = GetCacheKey(call.b.messages, call.b.kwargs),
                            !.pc = "done"]

(***************************************************************************)
(* chat_completion called on its own, with stream true or false, on a      *)
(* client whose cache is empty or holds an entry for the key.              *)
(***************************************************************************)
\* the remote call with stream=True: the contents of the chunks that came,
\* and whether the call or the iteration raised after them
StreamOutcomes ==
    { [st |-> "ok", chunks |-> cs, err |-> ""] :
        cs \in { <<>>, <<NoText>>, <<HiThere>>, <<HiThere, NoText, Sure>> } } \cup
    { [st |-> "fail", chunks |-> cs, err |-> "Request timed out."] :
        cs \in { <<>>, <<HiThere>> } }

HasContent(text) == text # NoText

\* _stream_response consumed to its end: the contents it yields; an
\* exception is logged and ends the sequence
StreamResponse(o) == SelectSeq(o.chunks, HasContent)

\* the generator chat_completion returns for stream=True, not yet started
Generator == [st |-> "generator", text |-> <<>>, err |-> ""]

\* what the caller has of a generator once it has consumed it
Consumed(o) == [st |-> "fragments", text |-> StreamResponse(o), err |-> ""]

\* chat_completion without the test of stream
ChatCompletion_NoStreamTest(stream, c, key, o, t) ==
    IF key \in DOMAIN c /\ Fresh(c[key], t)
    THEN [result |-> [st |-> "ok", text |-> c[key].response, err |-> ""],
          cache |-> c, remote |-> NoCall]
    ELSE IF stream
    THEN [result |-> Generator, cache |-> c, remote |-> NoCall]
    ELSE [result |-> DirectRequest(o),
          cache |-> IF Truthy(DirectRequest(o))
                    THEN CachePut(c, key, CacheEntry(DirectRequest(o).text, t))
                    ELSE c,
          remote |-> o]

\* chat_completion(messages, stream, **kwargs): what it returns, the cache
\* after it and the remote call it made, for the outcome o of that call
ChatCompletion(stream, c, key, o, t) ==
    IF stream
    THEN [result |-> Generator, cache |-> c, remote |-> NoCall]
    ELSE IF key \in DOMAIN c /\ Fresh(c[key], t)
    THEN [result |-> [st |-> "ok", text |-> c[key].response, err |-> ""],
          cache |-> c, remote |-> NoCall]
    ELSE [result |-> DirectRequest(o),
          cache |-> IF Truthy(DirectRequest(o))
                    THEN CachePut(c, key, CacheEntry(DirectRequest(o).text, t))
                    ELSE c,
          remote |-> o]

\* the key of the call
CompleteKey == CacheKey(Hello, {})

\* the cache before the call and the time of the call: no entry, an entry
\* within its ttl, an entry past it
CompleteCaches ==
    { [cache |-> EmptyCache, now |-> 0],
      [cache |-> CachePut(EmptyCache, CompleteKey, CacheEntry(Sure, 0)), now |-> cache_ttl - 1],
      [cache |-> CachePut(EmptyCache, CompleteKey, CacheEntry(Sure, 0)), now |-> cache_ttl] }

CompleteCalls ==
    { [fn |-> "complete", stream |-> s, key |-> CompleteKey, cache0 |-> c.cache,
       cache |-> c.cache, now |-> c.now, remote |-> NoCall, result |-> Generator,
       pc |-> "call"] : s \in BOOLEAN, c \in CompleteCaches }

\* the call of chat_completion, up to its return
CompleteCall ==
    /\ call.fn = "complete" /\ call.pc = "call"
    /\ \E o \in RemoteOutcomes :
         LET r == ChatCompletion(call.stream, call.cache, call.key, o, call.now)
         IN  call' = [call EXCEPT !.result = r.result,
                                  !.cache = r.cache,
                                  !.remote = r.remote,
                                  !.pc = IF r.result = Generator THEN "generator"
                                         ELSE "returned"]

\* the caller consumes the generator to its end: the remote call is made and
\* its chunks come
CompleteConsume ==
    /\ call.fn = "complete" /\ call.pc = "generator"
    /\ \E o \in StreamOutcomes :
         call' = [call EXCEPT !.result = Consumed(o), !.remote = o, !.pc = "returned"]

\* the daemon left as constructed while a function is called on its own
DaemonVars == <<mainVars, clockVars, cache, connVars, histVars>>

InitF == InitDaemon /\ apiKey /\ call \in CodecCalls \cup KeyCalls \cup CompleteCalls

NextF ==
    \/ CodecRecv /\ UNCHANGED DaemonVars
    \/ CodecDecode /\ UNCHANGED DaemonVars
    \/ KeyFirst /\ UNCHANGED DaemonVars
    \/ KeySecond /\ UNCHANGED DaemonVars
    \/ CompleteCall /\ UNCHANGED DaemonVars
    \/ CompleteConsume /\ UNCHANGED DaemonVars

\* the functions of the program called on their own
SpecF == InitF /\ [][NextF]_vars

(***************************************************************************)
(* C14: wire codec round trip: for every JSON value whose encoded text     *)
(* does not contain the sentinel, framing it and decoding the frame (read  *)
(* until the sentinel is in the buffer, strip every occurrence of the      *)
(* sentinel, parse) yields the same value, however the stream is split     *)
(* into received chunks: the receive loop ends exactly when the last chunk *)
(* of the frame has come, and the value parsed is the value framed.        *)
(***************************************************************************)
C14_RoundTrip ==
    call.fn = "codec" /\ ~Contains(JsonDumps(call.value), SentinelBytes)
        => /\ call.pc = "recv" => call.chunks # <<>>
           /\ call.pc \in {"decode", "done"} => call.chunks = <<>>
           /\ call.pc = "done" => call.out = [ok |-> TRUE, value |-> call.value]

\* a text ending like the beginning of the sentinel, its frame cut inside
\* the text and inside the sentinel
C14_Witness ==
    /\ call.fn = "codec" /\ call.pc = "done"
    /\ call.value = SubSeq(SentinelBytes, 1, 5)
    /\ Len(call.sent) = 3
    /\ Len(call.sent[1]) < Len(call.value)
    /\ Len(call.sent[3]) < Len(SentinelBytes)
    /\ call.out = [ok |-> TRUE, value |-> call.value]

(***************************************************************************)
(* C15.  Two requests are the same when they have the same messages in the *)
(* same order and the same parameter values, whatever the order of the     *)
(* fields inside the messages and among the parameters.                    *)
(***************************************************************************)
SameRequest(a, b) ==
    /\ Len(a.messages) = Len(b.messages)
    /\ \A i \in 1..Len(a.messages) :
          i <= Len(b.messages) => DictOf(a.messages[i]) = DictOf(b.messages[i])
    /\ DictOf(a.kwargs) = DictOf(b.kwargs)

(***************************************************************************)
(* C15: the cache key does not depend on the order in which the fields     *)
(* were supplied: two requests with the same ordered messages and the same *)
(* parameter values, built with their fields in different orders, get the  *)
(* same key.                                                               *)
(***************************************************************************)
C15_KeyOrderIndependent ==
    call.fn = "key" /\ call.pc = "done" /\ SameRequest(call.a, call.b)
        => call.keyA = call.keyB

C15_Witness ==
    /\ call.fn = "key" /\ call.pc = "done" /\ SameRequest(call.a, call.b)
    /\ Len(call.a.messages) > 1
    /\ call.a.messages[1] # call.b.messages[1]
    /\ call.a.kwargs # call.b.kwargs
    /\ call.keyA = call.keyB

(***************************************************************************)
(* C16: chat_completion never reports a failed remote call as a successful *)
(* empty result: on the non-streaming and on the streaming path, what the  *)
(* caller has when the remote call failed differs from what it has when    *)
(* the call succeeded without content.  On the streaming path              *)
(* _stream_response logs the exception and ends the sequence: the caller   *)
(* has an empty sequence of fragments in both cases.                       *)
(***************************************************************************)
C16_FailureDistinguishable ==
    call.fn = "complete" /\ call.pc = "returned" /\ call.remote.st = "fail"
        => IF call.stream
           THEN \A o \in StreamOutcomes :
                    o.st = "ok" /\ StreamResponse(o) = <<>> => call.result # Consumed(o)
           ELSE \A o \in RemoteOutcomes :
                    o.st = "ok" /\ o.text = NoText => call.result # DirectRequest(o)

(***************************************************************************)
(* C19: chat_completion called with stream=true neither reads nor writes   *)
(* the cache: the cache after the call, and after the fragments have been  *)
(* consumed, is the cache before the call, and the caller gets the         *)
(* fragments of the remote call, never a cached entry for the same         *)
(* messages and parameters.                                                *)
(***************************************************************************)
C19_StreamingSkipsCache ==
    call.fn = "complete" /\ call.stream
        => /\ call.cache = call.cache0
           /\ call.pc = "generator" => call.result = Generator /\ call.remote = NoCall
           /\ call.pc = "returned" =>
                 call.remote \in StreamOutcomes /\ call.result = Consumed(call.remote)

\* a streaming call consumed while the cache holds an entry within its ttl
C19_Witness ==
    /\ call.fn = "complete" /\ call.stream /\ call.pc = "returned"
    /\ call.key \in DOMAIN call.cache0
    /\ Fresh(call.cache0[call.key], call.now)
    /\ call.result.text = <<HiThere, Sure>>
    /\ call.cache = call.cache0

(***************************************************************************)
(* C17: startup.  With the credential present, initialization succeeds and *)
(* the daemon goes on to bind and accept whether the warm-up completion    *)
(* brought a text, failed or brought no content; with the credential       *)
(* absent run returns a non-zero status and the daemon never binds and     *)
(* never accepts a connection.                                             *)
(***************************************************************************)
C17_Startup ==
    /\ [](~apiKey => /\ mainPc \in {"start", "exited"}
                      /\ ~listening /\ ~sockFile /\ ~llm
                      /\ \A c \in Conns : hpc[c] = "free"
                      /\ mainPc = "exited" => exitStatus > 0)
    /\ [][mainPc = "start" /\ mainPc' # "start"
            => IF apiKey THEN mainPc' = "bind" /\ llm' /\ exitStatus' = exitStatus
               ELSE mainPc' = "exited"]_vars
    /\ [](apiKey /\ mainPc = "bind" => ENABLED Bind)
    /\ [](running /\ mainPc = "accept" /\ (\E c \in Conns : hpc[c] = "free")
            => ENABLED Accept)

\* a connection accepted by a daemon whose warm-up stored nothing
C17_Witness ==
    /\ apiKey /\ llm /\ running /\ listening
    /\ cache = EmptyCache
    /\ \E c \in Conns : hpc[c] = "recv"

(***************************************************************************)
(* C18: per connection, on every path of the handler: at most one request  *)
(* is dispatched; at most one response frame is sent, and one is sent when *)
(* a request was received and the send succeeds; the frame is sent only    *)
(* after the request has been read; the handler ends through the close of  *)
(* its connection, on the exception paths too.                             *)
(***************************************************************************)
\* where the handler of c is once its receive loop has ended
PastRecv == {"parse", "send", "send_exc", "close"} \cup ChatStates

C18_OneRequestOneResponse ==
    /\ [][\A c \in Conns :
            \* one dispatch: nothing leads back to the parsing of the buffer
            /\ hpc'[c] = "parse" /\ hpc[c] # "parse" => hpc[c] = "recv"
            /\ hpc'[c] = "recv" /\ hpc[c] # "recv" => hpc[c] = "free"
            \* one frame, after the request has been read
            /\ delivered'[c] # delivered[c] /\ delivered'[c] # NoResponse
                  => /\ delivered[c] = NoResponse
                     /\ hpc[c] \in {"send", "send_exc"}
                     /\ delivered'[c] = response[c] /\ response[c] # NoResponse
            \* the send succeeds: the frame is the response
            /\ hpc[c] = "send" /\ hpc'[c] = "close"
                  => delivered'[c] = response[c] /\ response[c] # NoResponse
            \* every path ends in the finally clause
            /\ hpc[c] \in PastRecv /\ hpc'[c] # hpc[c] => hpc'[c] \in PastRecv \cup {"free"}
            /\ hpc[c] # "free" /\ hpc'[c] = "free" => hpc[c] = "close"
            /\ hpc[c] = "send_exc" /\ hpc'[c] # hpc[c] => hpc'[c] = "close"]_vars
    /\ [](\A c \in Conns :
            /\ hpc[c] \in {"recv", "free"} => delivered[c] = NoResponse
            /\ hpc[c] = "close" /\ Alive => ENABLED Close(c))

\* the send in the try block failed and the send of the except block succeeded
C18_Witness ==
    \E c \in Conns :
        /\ hpc[c] = "close"
        /\ response[c] = InternalError(SendErrorText)
        /\ delivered[c] = response[c]

(***************************************************************************)
(* C20: a non-streaming completion whose remote call fails leaves the      *)
(* cache unchanged: no entry is created or refreshed for its key, so the   *)
(* next identical request is not answered from the cache with a failure:   *)
(* it calls the remote again.                                              *)
(***************************************************************************)
\* the chat_completion before that of c called the remote and the call failed
AfterFailure(c) == pred[c].some /\ pred[c].out.st = "fail"

C20_FailureNotCached ==
    [][\A c \in Conns :
         /\ Leaves(c, "cc_store") /\ remote[c].st = "fail" => cache' = cache
         /\ AfterFailure(c) /\ Leaves(c, "cc_test") => hpc'[c] \in {"cc_read", "cc_request"}
         /\ AfterFailure(c) /\ Leaves(c, "cc_read") =>
                hpc'[c] = "cc_request" /\ response'[c] = response[c]
         /\ AfterFailure(c) /\ Leaves(c, "cc_request") => remote'[c] # NoCall]_vars

\* the request after a failed one has called the remote again
C20_Witness ==
    \E c \in Conns :
        /\ AfterFailure(c)
        /\ hpc[c] = "cc_store" /\ remote[c].st = "ok"

====
